---- MODULE Spec2Model ----
(***************************************************************************)
(* Movie recommender API (src/main.py): the three artifacts loaded by      *)
(* lifespan, the TF-IDF recommender tfidf_recommend_titles and the route   *)
(* handlers that call it.                                                  *)
(*                                                                         *)
(* Titles are sequences of one-character strings, so that _norm_title      *)
(* (strip + lower) is computed and not assumed.  Row indices are 0-based   *)
(* as in the code; row r of a table is element r + 1 of its sequence.      *)
(* Feature vectors hold small integers, so the scores (dot products) are   *)
(* exact.                                                                  *)
(***************************************************************************)
EXTENDS Integers, Sequences, FiniteSets, TLC

VARIABLES
    pc,            \* position of lifespan: which artifact is loaded next
    loaded,        \* the globals that have been assigned (are not None)
    df,            \* global df: the corpus, a sequence of titles (column "title")
    TITLE_TO_IDX,  \* global TITLE_TO_IDX: normalized title -> row index
    tfidf_matrix,  \* global tfidf_matrix: a sequence of feature vectors
    argsortTie,    \* how this build's np.argsort orders equal keys
    pending,       \* the search_bundle suspended at an await of attach_card
    resp,          \* the response being sent, until it is sent
    pinned         \* an earlier response kept by a client for comparison

vars == <<pc, loaded, df, TITLE_TO_IDX, tfidf_matrix, argsortTie,
          pending, resp, pinned>>

globals == <<loaded, df, TITLE_TO_IDX, tfidf_matrix>>

(***************************************************************************)
(* Bounds and input sets                                                   *)
(***************************************************************************)
MaxRows  == 3
MaxTopN  == 2
MaxItems == 2

\* Python's None: the value of a global before its load (see loaded), and of
\* TITLE_TO_IDX.get(key) for an absent key (a row index found is <<idx>>).
None == <<>>

\* No response being sent; no search_bundle suspended.
NoResp == [route |-> "", title |-> <<>>, top_n |-> 0, status |-> 0,
           body |-> <<>>, rows |-> <<>>, matrix_read |-> FALSE]

\* No response kept.
NoPin == [r |-> NoResp, other |-> FALSE]

\* Raw titles found in the corpus (column "title" of df).
Titles == { <<" ", "A">>, <<"b", " ">> }

\* Titles asked for by clients (or returned by OMDB), written differently from
\* the corpus; a corpus that holds only one of the two titles lacks the other.
QueryTitles == { <<"a", " ">>, <<" ", "B">> }

\* Rows of the feature matrix.
Vectors == { <<1, 0>>, <<1, 1>> }

\* top_n is an unconstrained int; a negative top_n takes the path of 0.
TopNs == 0..MaxTopN

RECURSIVE SeqsUpTo(_, _)
SeqsUpTo(S, n) ==
    IF n = 0 THEN {}
    ELSE [1..n -> S] \cup SeqsUpTo(S, n - 1)

\* df.pkl: a corpus of 1..MaxRows rows sorted by title, so that rows of one
\* title (several films of the same name) are adjacent.
Corpora ==
    { [i \in 1..n |-> IF i <= j THEN <<" ", "A">> ELSE <<"b", " ">>] :
        n \in 1..MaxRows, j \in 0..MaxRows } \ {<<>>}

\* tfidf_matrix.pkl: a matrix of 1..MaxRows rows.
Matrices == SeqsUpTo(Vectors, MaxRows)

\* Row indices found in indices.pkl: the last row written the Python way, the
\* first two rows, and a row that neither table has.
IdxValues == ((0 - 1)..1) \cup {MaxRows}

\* indices.pkl: the items (title, row index) of the pickled mapping, in the
\* order items() yields them; the file is independent of the other two.
IndexFiles == {<<>>} \cup SeqsUpTo(Titles \X IdxValues, MaxItems)

\* np.argsort with the default kind ("quicksort") is not stable: the order of
\* equal keys depends on the build (insertion sort, introsort, SIMD network).
TieOrders == {"ascending", "descending"}

(***************************************************************************)
(* _norm_title: str(t).strip().lower()                                     *)
(***************************************************************************)
IsSpace(c) == c = " "

LowerChar(c) ==
    CASE c = "A" -> "a"
      [] c = "B" -> "b"
      [] c = "C" -> "c"
      [] OTHER   -> c

RECURSIVE LStrip(_)
LStrip(s) ==
    IF s # <<>> /\ IsSpace(Head(s)) THEN LStrip(Tail(s)) ELSE s

RECURSIVE RStrip(_)
RStrip(s) ==
    IF s # <<>> /\ IsSpace(s[Len(s)]) THEN RStrip(SubSeq(s, 1, Len(s) - 1)) ELSE s

Strip(s) == RStrip(LStrip(s))

Lower(s) == [i \in 1..Len(s) |-> LowerChar(s[i])]

_norm_title(t) == Lower(Strip(t))

(***************************************************************************)
(* build_title_map: a dict comprehension over indices.items(); a later     *)
(* item with the same normalized key overwrites an earlier one.            *)
(***************************************************************************)
MaxOf(S) == CHOOSE x \in S : \A y \in S : y <= x

build_title_map(indices) ==
    LET keys == { _norm_title(indices[i][1]) : i \in DOMAIN indices }
    IN  [k \in keys |->
            indices[MaxOf({ i \in DOMAIN indices :
                              _norm_title(indices[i][1]) = k })][2]]

(***************************************************************************)
(* tfidf_recommend_titles                                                  *)
(***************************************************************************)
RECURSIVE Dot(_, _)
Dot(u, v) ==
    IF u = <<>> \/ v = <<>> THEN 0
    ELSE Head(u) * Head(v) + Dot(Tail(u), Tail(v))

\* tfidf_matrix[idx]: a negative idx counts from the last row.
InRange(m, idx) == 0 - Len(m) <= idx /\ idx < Len(m)

Row(m, idx) == IF idx >= 0 THEN m[idx + 1] ELSE m[Len(m) + idx + 1]

\* (tfidf_matrix @ tfidf_matrix[idx].T).toarray().ravel()
Scores(m, idx) == [i \in 1..Len(m) |-> Dot(m[i], Row(m, idx))]

Negate_forgotten(a) == a

Negate(a) == [i \in DOMAIN a |-> 0 - a[i]]

\* Does row i come before row j when their keys are equal?
TieBefore(tie, i, j) ==
    IF tie = "ascending" THEN i < j ELSE i > j

\* The position argsort puts first among `left`: a smallest key.
FirstOf(a, left, tie) ==
    CHOOSE i \in left :
        \A j \in left \ {i} :
            \/ a[i + 1] < a[j + 1]
            \/ a[i + 1] = a[j + 1] /\ TieBefore(tie, i, j)

RECURSIVE SortFrom(_, _, _)
SortFrom(a, left, tie) ==
    IF left = {} THEN <<>>
    ELSE LET i == FirstOf(a, left, tie)
         IN  <<i>> \o SortFrom(a, left \ {i}, tie)

\* np.argsort(a): the 0-based indices of a in ascending order of a.
argsort(a, tie) == SortFrom(a, { i - 1 : i \in DOMAIN a }, tie)

\* A result list that is one object for every call (a module-level list, or a
\* mutable default argument): a call made while search_bundle is suspended
\* in its loop over the list goes on from what that call collected.
NewOut_shared == [out |-> pending.body, rows |-> pending.rows]

\* out = []: every call collects into a list of its own.
NewOut == [out |-> <<>>, rows |-> <<>>]

\* The loop of lines 130-137 from position k of order, with out built so far
\* (rows: the row index of each pair of out, kept for the properties below).
\* order holds indices >= 0, so a negative idx skips no row.
RECURSIVE Collect(_, _, _, _, _, _, _)
Collect(order, k, idx, scores, top_n, out, rows) ==
    IF k > Len(order) THEN [kind |-> "ok", out |-> out, rows |-> rows]
    ELSE LET i == order[k]
         IN  IF i = idx
             THEN Collect(order, k + 1, idx, scores, top_n, out, rows)
             ELSE IF i >= Len(df)                               \* df.iloc[i]
             THEN [kind |-> "IndexError", out |-> <<>>, rows |-> <<>>]
             ELSE LET out2  == Append(out, <<df[i + 1], scores[i + 1]>>)
                      rows2 == Append(rows, i)
                  IN  IF Len(out2) >= top_n
                      THEN [kind |-> "ok", out |-> out2, rows |-> rows2]
                      ELSE Collect(order, k + 1, idx, scores, top_n, out2, rows2)

\* A lookup that answers row 0 for an absent key.
Lookup_default0(title) ==
    IF _norm_title(title) \in DOMAIN TITLE_TO_IDX
    THEN <<TITLE_TO_IDX[_norm_title(title)]>>
    ELSE <<0>>

\* TITLE_TO_IDX.get(_norm_title(title))
Lookup(title) ==
    IF _norm_title(title) \in DOMAIN TITLE_TO_IDX
    THEN <<TITLE_TO_IDX[_norm_title(title)]>>
    ELSE None

\* kind: "ok" (returned out) or the exception raised; matrix_read: whether
\* the call got as far as line 127.
tfidf_recommend_titles(title, top_n) ==
    LET hit == Lookup(title)
    IN  IF hit = None
        THEN [kind |-> "ok", out |-> <<>>, rows |-> <<>>, matrix_read |-> FALSE]
        ELSE IF ~InRange(tfidf_matrix, hit[1])                  \* tfidf_matrix[idx]
        THEN [kind |-> "IndexError", out |-> <<>>, rows |-> <<>>,
              matrix_read |-> TRUE]
        ELSE LET idx    == hit[1]
                 scores == Scores(tfidf_matrix, idx)
                 order  == argsort(Negate(scores), argsortTie)
                 r      == Collect(order, 1, idx, scores, top_n,
                                  NewOut.out, NewOut.rows)
             IN  [kind |-> r.kind, out |-> r.out, rows |-> r.rows,
                  matrix_read |-> TRUE]

(***************************************************************************)
(* lifespan                                                                *)
(***************************************************************************)
Init ==
    /\ pc = "load_df"
    /\ loaded = {}
    /\ df = None
    /\ TITLE_TO_IDX = None
    /\ tfidf_matrix = None
    /\ argsortTie \in TieOrders
    /\ pending = NoResp
    /\ resp = NoResp
    /\ pinned = NoPin

\* The exception swallowed: lifespan goes on to the next statement.
OnLoadError_swallowed(stage) ==
    CASE stage = "load_df"      -> "load_indices"
      [] stage = "load_indices" -> "load_matrix"
      [] OTHER                  -> "serving"

\* An exception in lifespan before the yield is not caught: startup fails.
OnLoadError(stage) == "failed"

\* A load that also runs again while requests are served.
Loading_again(stage) == pc = stage \/ pc = "serving"

\* lifespan runs once, top to bottom: a load runs only at its own place.
Loading(stage) == pc = stage

LoadDf ==
    /\ Loading("load_df")
    /\ \E corpus \in Corpora : df' = corpus
    /\ loaded' = loaded \cup {"df"}
    /\ pc' = "load_indices"
    /\ UNCHANGED <<TITLE_TO_IDX, tfidf_matrix, argsortTie, pending, resp, pinned>>

\* indices.pkl is read as it is: nothing compares it with df.
LoadIndices ==
    /\ Loading("load_indices")
    /\ \E indices \in IndexFiles : TITLE_TO_IDX' = build_title_map(indices)
    /\ loaded' = loaded \cup {"TITLE_TO_IDX"}
    /\ pc' = "load_matrix"
    /\ UNCHANGED <<df, tfidf_matrix, argsortTie, pending, resp, pinned>>

\* The matrix file is read as it is: nothing compares its row count to df's.
LoadMatrix ==
    /\ Loading("load_matrix")
    /\ \E m \in Matrices : tfidf_matrix' = m
    /\ loaded' = loaded \cup {"tfidf_matrix"}
    /\ pc' = "serving"
    /\ UNCHANGED <<df, TITLE_TO_IDX, argsortTie, pending, resp, pinned>>

\* open() or pickle.load raises (file missing or unreadable).
LoadError ==
    /\ pc \in {"load_df", "load_indices", "load_matrix"}
    /\ pc' = OnLoadError(pc)
    /\ UNCHANGED <<globals, argsortTie, pending, resp, pinned>>

(***************************************************************************)
(* Routes.  Requests are handled only after lifespan has yielded.  The     *)
(* event loop runs one handler at a time up to its next await: a step is   *)
(* the run of a handler between two awaits.  Awaits before a handler reads *)
(* any global are folded into its first step.  One search_bundle at a time *)
(* is followed across its awaits of attach_card; any other request can be  *)
(* handled while it is suspended.  resp shows one response at a time.      *)
(***************************************************************************)
Serving == pc = "serving"

\* The event loop is free to run a handler.
Ready == Serving /\ resp = NoResp

\* An exception that is not an HTTPException becomes a 500 response.
Status(kind) == IF kind = "ok" THEN 200 ELSE 500

Response(route, title, top_n, r) ==
    [route |-> route, title |-> title, top_n |-> top_n,
     status |-> Status(r.kind), body |-> r.out, rows |-> r.rows,
     matrix_read |-> r.matrix_read]

\* The response of a handler that has not called the recommender.
Plain(route, status) ==
    [route |-> route, title |-> <<>>, top_n |-> 0, status |-> status,
     body |-> <<>>, rows |-> <<>>, matrix_read |-> FALSE]

\* The response of a handler that failed after the recommender returned.
Failed(r, status) ==
    [r EXCEPT !.status = status, !.body = <<>>, !.rows = <<>>]

SameQuery(r1, r2) ==
    r1.route = r2.route /\ r1.title = r2.title /\ r1.top_n = r2.top_n

\* The kept response remembers whether a different request was handled since.
Observe(new) ==
    IF pinned.r # NoResp /\ ~SameQuery(new, pinned.r)
    THEN [pinned EXCEPT !.other = TRUE]
    ELSE pinned

\* recommend_tfidf has no await: the whole handler is one step.
recommend_tfidf(title, top_n) ==
    /\ Ready
    /\ resp' = Response("/recommend/tfidf", title, top_n,
                        tfidf_recommend_titles(title, top_n))
    /\ pinned' = Observe(resp')
    /\ UNCHANGED <<pc, globals, argsortTie, pending>>

\* search_bundle up to its call of the recommender: OMDB finds nothing (404),
\* answers with an error (502), or the lookup raises something else (500).
search_bundle_lookup_fails ==
    /\ Ready
    /\ \E status \in {404, 500, 502} : resp' = Plain("/movie/search", status)
    /\ pinned' = Observe(resp')
    /\ UNCHANGED <<pc, globals, argsortTie, pending>>

\* search_bundle from the resolution of details.title through the call of
\* the recommender: it answers at once when the call raises or returns no
\* title, and is suspended at the first await of attach_card otherwise.
search_bundle(title, top_n) ==
    /\ Ready
    /\ pending = NoResp
    /\ LET r == Response("/movie/search", title, top_n,
                         tfidf_recommend_titles(title, top_n))
       IN  IF r.status = 200 /\ r.body # <<>>
           THEN /\ pending' = r
                /\ pinned' = Observe(r)
                /\ UNCHANGED resp
           ELSE /\ resp' = r
                /\ pinned' = Observe(resp')
                /\ UNCHANGED pending
    /\ UNCHANGED <<pc, globals, argsortTie>>

\* search_bundle after its awaits of attach_card: it answers with the list
\* computed before them, or attach_card raised (502 from OMDB, else 500).
search_bundle_resume ==
    /\ Ready
    /\ pending # NoResp
    /\ \E status \in {200, 500, 502} :
           resp' = IF status = 200 THEN pending ELSE Failed(pending, status)
    /\ pending' = NoResp
    /\ pinned' = Observe(resp')
    /\ UNCHANGED <<pc, globals, argsortTie>>

health ==
    /\ Ready
    /\ resp' = Plain("/health", 200)
    /\ pinned' = Observe(resp')
    /\ UNCHANGED <<pc, globals, argsortTie, pending>>

\* home, tmdb_search, movie_details_route: proxies of OMDB that read no
\* global; OMDB's error is a 502, any other exception a 500.
omdb_route ==
    /\ Ready
    /\ \E status \in {200, 500, 502} : resp' = Plain("/omdb", status)
    /\ pinned' = Observe(resp')
    /\ UNCHANGED <<pc, globals, argsortTie, pending>>

\* The response has been sent.
Sent ==
    /\ Serving
    /\ resp # NoResp
    /\ resp' = NoResp
    /\ UNCHANGED <<pc, globals, argsortTie, pending, pinned>>

\* The response has been sent to a client that keeps it and asks again.
Pin ==
    /\ Serving
    /\ pinned = NoPin
    /\ resp.route = "/recommend/tfidf"
    /\ pinned' = [r |-> resp, other |-> FALSE]
    /\ resp' = NoResp
    /\ UNCHANGED <<pc, globals, argsortTie, pending>>

Next ==
    \/ LoadDf
    \/ LoadIndices
    \/ LoadMatrix
    \/ LoadError
    \/ \E title \in QueryTitles, top_n \in TopNs : recommend_tfidf(title, top_n)
    \/ search_bundle_lookup_fails
    \/ \E title \in QueryTitles, top_n \in TopNs : search_bundle(title, top_n)
    \/ search_bundle_resume
    \/ health
    \/ omdb_route
    \/ Sent

Spec == Init /\ [][Next]_vars

\* The same program, every handler included, with a client that keeps one
\* answer of /recommend/tfidf and compares the later answers with it.
NextDet ==
    \/ Next
    \/ Pin

SpecDet == Init /\ [][NextDet]_vars

(***************************************************************************)
(* Properties                                                              *)
(***************************************************************************)
\* resp answers a call of tfidf_recommend_titles(resp.title, resp.top_n).
IsRec(r) == r.route \in {"/recommend/tfidf", "/movie/search"} /\ r.title # <<>>

Known(title) == _norm_title(title) \in DOMAIN TITLE_TO_IDX

Returned(r) == IsRec(r) /\ r.status = 200

Prefix(s, n) == SubSeq(s, 1, IF n < Len(s) THEN n ELSE Len(s))

\* C1: for a known title and top_n > 0 the call returns at most top_n pairs and
\* no returned pair carries the query title (compared after strip + lower),
\* whatever the corpus holds.
C1_AtMostTopNWithoutQueryTitle ==
    (Returned(resp) /\ Known(resp.title) /\ resp.top_n > 0) =>
        /\ Len(resp.body) <= resp.top_n
        /\ \A i \in DOMAIN resp.body :
               _norm_title(resp.body[i][1]) # _norm_title(resp.title)

\* C2: a call with top_n <= 0 fails and returns no recommendation list (stated
\* for known titles, where the claim does not meet the unknown-title rule).
C2_NonPositiveTopNFails ==
    (IsRec(resp) /\ Known(resp.title) /\ resp.top_n <= 0) =>
        (resp.status # 200 /\ resp.body = <<>>)

\* C3: the application never serves with a corpus and a feature matrix of
\* different row counts: such a startup fails.
C3_MismatchFailsStartup ==
    ~(Serving /\ Len(df) # Len(tfidf_matrix))

\* C4: for a title whose normalized form is no key of the Title Index the call
\* returns the empty sequence for every top_n, raises nothing and does not
\* read the feature matrix.
C4_UnknownTitleEmpty ==
    (IsRec(resp) /\ ~Known(resp.title)) =>
        (resp.status = 200 /\ resp.body = <<>> /\ ~resp.matrix_read)

C4_Witness ==
    /\ IsRec(resp) /\ ~Known(resp.title) /\ resp.top_n <= 0
    /\ resp.body = <<>>
    /\ Len(df) >= 2 /\ Len(tfidf_matrix) >= 2

\* C5: for a known title and top_n > 0 the scores of the returned sequence are
\* non-increasing from first to last.
C5_ScoresNonIncreasing ==
    (Returned(resp) /\ Known(resp.title) /\ resp.top_n > 0) =>
        \A i, j \in DOMAIN resp.body :
            i < j => resp.body[i][2] >= resp.body[j][2]

C5_Witness ==
    /\ Returned(resp) /\ Known(resp.title) /\ resp.top_n > 1
    /\ Len(resp.body) >= 2
    /\ resp.body[1][2] > resp.body[2][2]

\* C6: prefix-stability: for a known title and 0 < n1 < n2, the result for n1
\* equals the first n1 elements of the result for n2.
C6_PrefixStable ==
    (Returned(resp) /\ Known(resp.title) /\ resp.top_n > 0) =>
        \A n2 \in TopNs :
            n2 > resp.top_n =>
                LET r2 == tfidf_recommend_titles(resp.title, n2)
                IN  r2.kind = "ok" /\ resp.body = Prefix(r2.out, resp.top_n)

\* Prefix-stability where the row counts of corpus and matrix agree.
PrefixStableWhenAligned ==
    (Serving /\ Len(df) = Len(tfidf_matrix)) => C6_PrefixStable

C8_ServedOnlyWhenLoaded ==
    /\ resp # NoResp => Serving
    /\ pending # NoResp => Serving
    /\ Serving => loaded = {"df", "TITLE_TO_IDX", "tfidf_matrix"}
    /\ pc = "failed" => (resp = NoResp /\ pending = NoResp)

C8_Witness ==
    pc = "failed" /\ loaded = {"df", "TITLE_TO_IDX"}

\* C9: once startup has completed, no step changes the corpus, the Title Index
\* or the feature matrix, and the application stays in the serving state.
C9_ArtifactsFrozen ==
    [][Serving => (Serving' /\ UNCHANGED <<df, TITLE_TO_IDX, tfidf_matrix>>)]_vars

C9_Witness ==
    /\ Serving /\ Returned(resp) /\ resp.matrix_read
    /\ Len(resp.body) >= 2

\* C10: returned rows with equal scores appear in ascending row-index order.
C10_TiesInRowOrder ==
    (Returned(resp) /\ Known(resp.title) /\ resp.top_n > 0) =>
        \A i, j \in DOMAIN resp.body :
            (i < j /\ resp.body[i][2] = resp.body[j][2]) =>
                resp.rows[i] < resp.rows[j]

====
